---- MODULE Spec2Model ----
(***************************************************************************)
(* Model of src/app.py: the cleaning pipeline load_and_process_data and    *)
(* the analyses plot_fig1 .. plot_fig16 that derive their figures from the *)
(* cleaned table.                                                          *)
(*                                                                         *)
(* file is the content of the data file, df the cleaned table of the       *)
(* running script, fig the outcome of the requested analysis and cache the *)
(* store of the memoized loader.                                           *)
(*                                                                         *)
(* A CSV cell is a sequence of one-character strings (the empty sequence   *)
(* is an empty cell).  A DataFrame cell is a record [t, n, s]: a number    *)
(* (t = "num", value n), a text (t = "str", characters s) or the missing   *)
(* value (t = "nan").  Numbers of the model are integers; quotients are    *)
(* kept exact as pairs <<numerator, denominator>>.                         *)
(***************************************************************************)
EXTENDS Integers, Sequences, FiniteSets, TLC

VARIABLES file, df, fig, cache

vars == <<file, df, fig, cache>>

(***************************************************************************)
(* Bounds of the model.                                                    *)
(***************************************************************************)
MaxRows == 3
MaxSlots == 4

(***************************************************************************)
(* Cells.                                                                  *)
(***************************************************************************)
Num(n) == [t |-> "num", n |-> n, s |-> <<>>]
Str(s) == [t |-> "str", n |-> 0, s |-> s]
NaN == [t |-> "nan", n |-> 0, s |-> <<>>]

notna(c) == c.t # "nan"
isNum(c) == c.t = "num"

\* comparisons of a column with a number: a missing value compares False
gt(c, k) == isNum(c) /\ c.n > k
ge(c, k) == isNum(c) /\ c.n >= k
le(c, k) == isNum(c) /\ c.n <= k
lt(c, k) == isNum(c) /\ c.n < k

(***************************************************************************)
(* Sequences.                                                              *)
(***************************************************************************)
RECURSIVE KeepIdx(_, _, _)
KeepIdx(s, I, i) ==
    IF i > Len(s) THEN <<>>
    ELSE (IF i \in I THEN <<s[i]>> ELSE <<>>) \o KeepIdx(s, I, i + 1)

\* the rows of s at the positions in I, in the order of s (boolean indexing)
Take(s, I) == KeepIdx(s, I, 1)

Range(s) == {s[i] : i \in 1..Len(s)}

RECURSIVE SumOver(_, _)
SumOver(S, f) ==
    IF S = {} THEN 0
    ELSE LET x == CHOOSE y \in S : TRUE IN f[x] + SumOver(S \ {x}, f)

\* n / d rounded to the nearest integer, halves to the even one (round())
RoundHalfEven(n, d) ==
    LET q == n \div d
        r == n % d
    IN  IF 2 * r < d THEN q
        ELSE IF 2 * r > d THEN q + 1
        ELSE IF q % 2 = 0 THEN q ELSE q + 1

(***************************************************************************)
(* Text <-> number conversions.                                            *)
(***************************************************************************)
DigitChars == <<"0", "1", "2", "3", "4", "5", "6", "7", "8", "9">>

IsDigit(ch) == ch \in {"0", "1", "2", "3", "4", "5", "6", "7", "8", "9"}
DigitVal(ch) ==
    CASE ch = "0" -> 0 [] ch = "1" -> 1 [] ch = "2" -> 2 [] ch = "3" -> 3 [] ch = "4" -> 4
      [] ch = "5" -> 5 [] ch = "6" -> 6 [] ch = "7" -> 7 [] ch = "8" -> 8 [] ch = "9" -> 9

RECURSIVE ParseInt(_)
ParseInt(s) ==
    IF s = <<>> THEN 0
    ELSE ParseInt(SubSeq(s, 1, Len(s) - 1)) * 10 + DigitVal(s[Len(s)])

RECURSIVE Digits(_)
Digits(n) ==
    IF n < 10 THEN <<DigitChars[n + 1]>>
    ELSE Digits(n \div 10) \o <<DigitChars[(n % 10) + 1]>>

\* pd.to_numeric(errors='coerce') on one cell: decimal integers parse,
\* anything else becomes the missing value
to_numeric(c) ==
    IF c.t = "num" THEN c
    ELSE IF c.t = "str" /\ c.s # <<>> /\ \A i \in 1..Len(c.s) : IsDigit(c.s[i])
         THEN Num(ParseInt(c.s))
         ELSE NaN

RECURSIVE lstrip(_)
lstrip(s) == IF s # <<>> /\ Head(s) = " " THEN lstrip(Tail(s)) ELSE s

RECURSIVE rstrip(_)
rstrip(s) ==
    IF s # <<>> /\ s[Len(s)] = " " THEN rstrip(SubSeq(s, 1, Len(s) - 1)) ELSE s

\* str.strip()
strip(s) == rstrip(lstrip(s))

\* Series.astype(str) on one cell; asFloat is whether the column is float64
astype_str(c, asFloat) ==
    IF c.t = "str" THEN c.s
    ELSE IF c.t = "nan" THEN <<"n", "a", "n">>
    ELSE Digits(c.n) \o (IF asFloat THEN <<".", "0">> ELSE <<>>)

(***************************************************************************)
(* Tables.  A table is [columns, rows]; a row is [idx, c] with idx the     *)
(* index label (the line of the input it came from) and c the cells by     *)
(* column name.                                                            *)
(***************************************************************************)
NoStats == <<"N", "o", " ", "s", "t", "a", "t", "s">>

stats_columns ==
    {"Matches_Batted", "Not_Outs", "Runs_Scored", "Highest_Score", "Batting_Average",
     "Balls_Faced", "Batting_Strike_Rate", "Centuries", "Half_Centuries", "Fours", "Sixes",
     "Catches_Taken", "Stumpings", "Matches_Bowled", "Balls_Bowled", "Runs_Conceded",
     "Wickets_Taken", "Best_Bowling_Match", "Bowling_Average", "Economy_Rate",
     "Bowling_Strike_Rate", "Four_Wicket_Hauls", "Five_Wicket_Hauls"}

FreeTextColumns == {"Best_Bowling_Match", "Highest_Score"}

ClipAbove == 100

\* pd.read_csv on one cell: an empty cell is the missing value
read_cell(txt) == IF txt = <<>> THEN NaN ELSE Str(txt)

read_csv(f) ==
    [columns |-> f.columns,
     rows |-> [i \in 1..Len(f.rows) |->
                 [idx |-> i, c |-> [col \in f.columns |-> read_cell(f.rows[i][col])]]]]

\* a column of the file that holds no text at all is read with a numeric
\* dtype (float64 when every cell is empty), unless the file has no rows
IsObjectColumn(t, col) ==
    \/ Len(t.rows) = 0
    \/ \E i \in 1..Len(t.rows) : t.rows[i].c[col].t = "str"
                                  /\ to_numeric(t.rows[i].c[col]).t = "nan"

\* df[col] = cells, cells being a sequence with one cell for each row
SetCol(rows, col, cells) ==
    [i \in 1..Len(rows) |-> [rows[i] EXCEPT !.c = [rows[i].c EXCEPT ![col] = cells[i]]]]

\* df.dropna(subset=['Player_Name', 'Year'])
dropna_keys(rows) ==
    Take(rows, {i \in 1..Len(rows) :
                  notna(rows[i].c["Player_Name"]) /\ notna(rows[i].c["Year"])})

\* the per-column replace('No stats', nan) and to_numeric of the stats columns
clean_stat(col, c) ==
    LET r == IF c.t = "str" /\ c.s = NoStats THEN NaN ELSE c
    IN  IF col \in FreeTextColumns THEN r ELSE to_numeric(r)

coerce_stats(columns, rows) ==
    [i \in 1..Len(rows) |->
        [rows[i] EXCEPT !.c = [col \in columns |->
            IF col \in stats_columns THEN clean_stat(col, rows[i].c[col])
            ELSE rows[i].c[col]]]]

\* df.loc[df[col] > 100, col] = nan
clip_ge(c) == IF ge(c, ClipAbove) THEN NaN ELSE c
clip(c) == IF gt(c, ClipAbove) THEN NaN ELSE c

clip_column(columns, rows, col) ==
    IF col \in columns
    THEN SetCol(rows, col, [i \in 1..Len(rows) |-> clip(rows[i].c[col])])
    ELSE rows

\* whether the Year column is float64 after to_numeric (it holds a missing value)
YearIsFloat(rows) == \E i \in 1..Len(rows) : rows[i].c["Year"].t = "nan"

\* df['核心键']
core_key(r, asFloat) ==
    astype_str(r.c["Player_Name"], FALSE) \o <<"_">> \o astype_str(r.c["Year"], asFloat)

\* drop_duplicates(subset=['核心键'], keep='first')
drop_duplicates_last(rows) ==
    LET fl == YearIsFloat(rows)
    IN  Take(rows, {i \in 1..Len(rows) :
                      \A j \in (i + 1)..Len(rows) :
                          core_key(rows[j], fl) # core_key(rows[i], fl)})
drop_duplicates(rows) ==
    LET fl == YearIsFloat(rows)
    IN  Take(rows, {i \in 1..Len(rows) :
                      \A j \in 1..(i - 1) : core_key(rows[j], fl) # core_key(rows[i], fl)})

load_and_process_data(f) ==
    LET t0 == read_csv(f)
        cols == t0.columns
        r1 == IF {"Player_Name", "Year"} \subseteq cols THEN dropna_keys(t0.rows)
              ELSE t0.rows
        r2 == coerce_stats(cols, r1)
        r3 == SetCol(r2, "Year", [i \in 1..Len(r2) |-> to_numeric(r2[i].c["Year"])])
        r4 == clip_column(cols, r3, "Batting_Average")
        r5 == clip_column(cols, r4, "Bowling_Average")
        r6 == IF "Player_Name" \in cols
              THEN SetCol(r5, "Player_Name",
                          [i \in 1..Len(r5) |-> Str(strip(r5[i].c["Player_Name"].s))])
              ELSE r5
    IN  IF "Year" \notin cols THEN [status |-> "KeyError", columns |-> cols, rows |-> <<>>]
        ELSE IF "Player_Name" \in cols /\ ~IsObjectColumn(t0, "Player_Name")
             THEN [status |-> "AttributeError", columns |-> cols, rows |-> <<>>]
        ELSE IF "Player_Name" \notin cols
             THEN [status |-> "KeyError", columns |-> cols, rows |-> <<>>]
        ELSE [status |-> "ok", columns |-> cols, rows |-> drop_duplicates(r6)]

NoDf == [status |-> "none", columns |-> {}, rows |-> <<>>]
NoFig == [chart |-> "none"]

DEFAULT_FILE == "data.csv"
NoCache == {}

\* what a call under key that ended with value leaves in the store: a call
\* that raised leaves nothing
stored(key, value) == IF value.status = "ok" THEN {<<key, value>>} ELSE {}

\* @st.cache_data: the store c holds <<key, value>> pairs, the key being the
\* argument of the call (the file name); a call whose key is stored returns
\* the stored value, another call runs the function on the file f
cache_data(c, key, f) ==
    IF \E e \in c : e[1] = key
    THEN (CHOOSE e \in c : e[1] = key)[2]
    ELSE load_and_process_data(f)

(***************************************************************************)
(* Input files of bounded size.                                            *)
(***************************************************************************)
T(n) == Digits(n)

\* the file with one row for each slot in S (a slot is a <<Player_Name, Year>>
\* pair of texts), the other cells of the row of slot i being v[i]
SlotRow(columns, slot, v) ==
    [col \in columns |->
        IF col = "Player_Name" THEN slot[1] ELSE IF col = "Year" THEN slot[2] ELSE v[col]]

SlotFile(columns, slots, S, v) ==
    [columns |-> columns,
     rows |-> Take([i \in 1..Len(slots) |->
                      IF i \in S THEN SlotRow(columns, slots[i], v[i]) ELSE <<>>], S)]

LoadColumns == {"Player_Name", "Year", "Batting_Average"}
LoadNames == {<<"A">>, <<" ", "A", " ">>, <<>>}
LoadYears == {T(2020), T(2021), <<"a", "b", "c">>, <<>>}
LoadAverages == {T(100), T(101)}

LoadRow(n, y, a) ==
    [col \in LoadColumns |->
        IF col = "Player_Name" THEN n ELSE IF col = "Year" THEN y ELSE a]

LoadRows ==
    {LoadRow(n, y, a) : n \in LoadNames, y \in LoadYears, a \in LoadAverages}
        \cup {LoadRow(<<"A">>, T(2020), NoStats)}

(***************************************************************************)
(* The loader: the file is read and cleaned once.                          *)
(***************************************************************************)
InitLoad ==
    /\ \E n \in 0..MaxRows : \E q \in [1..n -> LoadRows] :
          file = [columns |-> LoadColumns, rows |-> q]
    /\ df = NoDf
    /\ fig = NoFig
    /\ cache = NoCache

Load ==
    /\ df.status = "none"
    /\ df' = cache_data(cache, DEFAULT_FILE, file)
    /\ cache' = cache \cup stored(DEFAULT_FILE, df')
    /\ UNCHANGED <<file, fig>>

NextLoad == Load

SpecLoad == InitLoad /\ [][NextLoad]_vars

(***************************************************************************)
(* Properties of the loader.                                               *)
(***************************************************************************)
\* the rows of the file that survive the null-drop, by line
Surviving == {i \in 1..Len(file.rows) :
                file.rows[i]["Player_Name"] # <<>> /\ file.rows[i]["Year"] # <<>>}

\* the (trimmed Player_Name, Year) pair of line i of the file
PairOf(i) == <<strip(file.rows[i]["Player_Name"]), to_numeric(Str(file.rows[i]["Year"]))>>
PairOfRow(r) == <<r.c["Player_Name"].s, r.c["Year"]>>

FirstWith(i) == CHOOSE j \in Surviving :
                    /\ PairOf(j) = PairOf(i)
                    /\ \A k \in Surviving : PairOf(k) = PairOf(i) => j <= k

RawAverage(i) == to_numeric(Str(file.rows[i]["Batting_Average"]))

\* C1: the output holds exactly one row per (trimmed Player_Name, Year) pair
\* of the rows surviving the null-drop, and it is the first row with that
\* pair in input order, also when the clip nulled that row's Batting_Average
C1_DedupKeepsFirst ==
    df.status = "ok" =>
        LET out == [k \in 1..Len(df.rows) |-> PairOfRow(df.rows[k])]
        IN  \* every pair of a surviving row has a row in the output
            /\ \A i \in Surviving : \E k \in 1..Len(df.rows) : out[k] = PairOf(i)
            \* and only one
            /\ \A k, l \in 1..Len(df.rows) :
                  k < l => out[k] # out[l] /\ df.rows[k].idx < df.rows[l].idx
            \* which is the first surviving row with the pair, as the clip left it
            /\ \A k \in 1..Len(df.rows) :
                  /\ df.rows[k].idx \in Surviving
                  /\ out[k] = PairOf(df.rows[k].idx)
                  /\ \A i \in Surviving : i < df.rows[k].idx => PairOf(i) # out[k]
                  /\ gt(RawAverage(df.rows[k].idx), 100)
                        => df.rows[k].c["Batting_Average"] = NaN

\* a pair occurs twice, its first row has an average above 100 and a later one
\* a valid average: the output row of the pair is the first, with no average
C1_Witness ==
    /\ df.status = "ok"
    /\ \E i, j \in Surviving :
          /\ i < j /\ PairOf(i) = PairOf(j) /\ FirstWith(i) = i
          /\ isNum(PairOf(i)[2])
          /\ gt(RawAverage(i), 100) /\ le(RawAverage(j), 100)
          /\ \E k \in 1..Len(df.rows) :
                df.rows[k].idx = i /\ df.rows[k].c["Batting_Average"] = NaN

\* C2: after the load every row has a numeric Year: a row whose Player_Name
\* or Year is missing, or whose Year does not parse as a number, is absent
C2_YearNumeric ==
    df.status = "ok" =>
        /\ \A k \in 1..Len(df.rows) : isNum(df.rows[k].c["Year"])
        /\ \A i \in 1..Len(file.rows) :
              (\/ i \notin Surviving
               \/ ~isNum(to_numeric(Str(file.rows[i]["Year"]))))
                  => \A k \in 1..Len(df.rows) : df.rows[k].idx # i

\* C3: no row of the output has a Batting_Average above 100: a value above
\* 100 became the missing value, a value of 100 or less is kept unchanged
C3_ClipAbove100 ==
    df.status = "ok" =>
        \A k \in 1..Len(df.rows) :
            LET raw == RawAverage(df.rows[k].idx)
                out == df.rows[k].c["Batting_Average"]
            IN  /\ ~gt(out, 100)
                /\ gt(raw, 100) => out = NaN
                /\ le(raw, 100) => out = raw

C3_Witness ==
    /\ df.status = "ok"
    /\ \E k, l \in 1..Len(df.rows) :
          /\ RawAverage(df.rows[k].idx) = Num(101)
          /\ df.rows[k].c["Batting_Average"] = NaN
          /\ RawAverage(df.rows[l].idx) = Num(100)
          /\ df.rows[l].c["Batting_Average"] = Num(100)

(***************************************************************************)
(* plot_fig1: distribution summary of Runs_Scored.                         *)
(***************************************************************************)
\* round(part / whole * 100, 1), in tenths of a percent
Rate(part, whole) == RoundHalfEven(part * 1000, whole)

plot_fig1(d) ==
    IF "Runs_Scored" \notin d.columns THEN [chart |-> "fig1", status |-> "KeyError"]
    ELSE
    LET valid_runs == Take(d.rows, {i \in 1..Len(d.rows) : gt(d.rows[i].c["Runs_Scored"], 0)})
        range_0_150 == Cardinality({i \in 1..Len(valid_runs) :
                           /\ ge(valid_runs[i].c["Runs_Scored"], 0)
                           /\ le(valid_runs[i].c["Runs_Scored"], 150)})
        range_500_plus == Cardinality({i \in 1..Len(valid_runs) :
                              ge(valid_runs[i].c["Runs_Scored"], 500)})
    IN  IF Len(valid_runs) = 0 THEN [chart |-> "fig1", status |-> "ZeroDivisionError"]
        ELSE [chart |-> "fig1", status |-> "ok",
              rate_0_150 |-> Rate(range_0_150, Len(valid_runs)),
              rate_500_plus |-> Rate(range_500_plus, Len(valid_runs))]

Fig1Columns == {"Player_Name", "Year", "Runs_Scored"}
Fig1Slots == <<<<<<"A">>, T(2020)>>, <<<<"A">>, T(2021)>>, <<<<"B">>, T(2020)>>,
               <<<<"B">>, T(2021)>>, <<<<"C">>, T(2020)>>, <<<<"C">>, T(2021)>>>>
Fig1Values == {[col \in {"Runs_Scored"} |-> r] : r \in {T(0), T(150), T(151), T(500), NoStats}}
InitFig1 ==
    /\ \E S \in SUBSET (1..MaxSlots) : \E v \in [S -> Fig1Values] :
          file = SlotFile(Fig1Columns, Fig1Slots, S, v)
    /\ df = load_and_process_data(file)
    /\ fig = NoFig
    /\ cache = stored(DEFAULT_FILE, df)

PlotFig1 ==
    /\ df.status = "ok" /\ fig.chart = "none"
    /\ fig' = plot_fig1(df)
    /\ UNCHANGED <<file, df, cache>>

NextFig1 == PlotFig1

SpecFig1 == InitFig1 /\ [][NextFig1]_vars

\* C10: when no row has Runs_Scored > 0, plot_fig1 completes and reports the
\* low-band share and the high-threshold share as 0
C10_EmptyReportsZero ==
    (fig.chart = "fig1" /\ \A k \in 1..Len(df.rows) : ~gt(df.rows[k].c["Runs_Scored"], 0))
        => fig.status = "ok" /\ fig.rate_0_150 = 0 /\ fig.rate_500_plus = 0

(***************************************************************************)
(* plot_fig5: radar comparison of the target players' best seasons.        *)
(***************************************************************************)
ViratKohli == <<"V", "i", "r", "a", "t", " ", "K", "o", "h", "l", "i">>
MSDhoni == <<"M", "S", " ", "D", "h", "o", "n", "i">>
SuryakumarYadav ==
    <<"S", "u", "r", "y", "a", "k", "u", "m", "a", "r", " ", "Y", "a", "d", "a", "v">>

target_players == <<ViratKohli, MSDhoni, SuryakumarYadav>>

\* the columns of col_mapping, in the order of indicators
indicators ==
    <<"Batting_Average", "Batting_Strike_Rate", "Wickets_Taken", "Bowling_Average",
      "Catches_Taken">>

is_reverse(col) == col = "Bowling_Average"

fillna0(c) == IF c.t = "nan" THEN Num(0) ELSE c

\* sort_values(by=[a, b], ascending=[False, False]): whether row r comes
\* strictly before row q (missing values last in each key)
DescBefore(x, y) == isNum(x) /\ (~isNum(y) \/ x.n > y.n)
SameKey(x, y) == (isNum(x) /\ isNum(y) /\ x.n = y.n) \/ (~isNum(x) /\ ~isNum(y))

SortsBefore(r, q, a, b) ==
    \/ DescBefore(r.c[a], q.c[a])
    \/ SameKey(r.c[a], q.c[a]) /\ DescBefore(r.c[b], q.c[b])

\* p_data.sort_values(...).iloc[0]
BestYear(p_data) ==
    LET top == CHOOSE i \in 1..Len(p_data) :
                 /\ \A j \in 1..Len(p_data) :
                        ~SortsBefore(p_data[j], p_data[i], "Runs_Scored", "Year")
                 /\ \A j \in 1..(i - 1) :
                        SortsBefore(p_data[i], p_data[j], "Runs_Scored", "Year")
    IN  p_data[top]

\* exact quotients <<numerator, denominator>> with a positive denominator
Clamp0to10(q) ==
    IF q[1] < 0 THEN <<0, 1>> ELSE IF q[1] > 10 * q[2] THEN <<10, 1>> ELSE q

normalize_unclamped(value, min_val, max_val, reverse) ==
    IF max_val = min_val THEN <<5, 1>>
    ELSE IF reverse
         THEN <<10 * (max_val - min_val) - (value - min_val) * 10, max_val - min_val>>
         ELSE <<(value - min_val) * 10, max_val - min_val>>
normalize_indicator(value, min_val, max_val, reverse) ==
    IF max_val = min_val THEN <<5, 1>>
    ELSE IF reverse
         THEN Clamp0to10(<<10 * (max_val - min_val) - (value - min_val) * 10,
                           max_val - min_val>>)
         ELSE Clamp0to10(<<(value - min_val) * 10, max_val - min_val>>)

\* round(score, 1), in tenths
Round1(q) == RoundHalfEven(q[1] * 10, q[2])

SetMin(S) == CHOOSE x \in S : \A y \in S : x <= y
SetMax(S) == CHOOSE x \in S : \A y \in S : x >= y

plot_fig5(d) ==
    IF "Player_Name" \notin d.columns THEN [chart |-> "fig5", status |-> "KeyError"]
    ELSE
    LET sel == Take(d.rows, {i \in 1..Len(d.rows) :
                   \E p \in 1..Len(target_players) :
                       d.rows[i].c["Player_Name"] = Str(target_players[p])})
        player_df == [i \in 1..Len(sel) |->
                        [sel[i] EXCEPT !.c = [col \in d.columns |->
                            IF col \in Range(indicators)
                            THEN fillna0(to_numeric(sel[i].c[col]))
                            ELSE sel[i].c[col]]]]
        p_data(p) == Take(player_df, {i \in 1..Len(player_df) :
                        player_df[i].c["Player_Name"] = Str(target_players[p])})
        present == {p \in 1..Len(target_players) : Len(p_data(p)) > 0}
        best_df == Take([p \in 1..Len(target_players) |->
                            IF p \in present THEN BestYear(p_data(p)) ELSE <<>>], present)
        valid_vals(col) == {best_df[k].c[col].n : k \in {j \in 1..Len(best_df) :
                                                            gt(best_df[j].c[col], 0)}}
        extremes == [col \in Range(indicators) |->
                        IF valid_vals(col) # {}
                        THEN <<SetMin(valid_vals(col)), SetMax(valid_vals(col))>>
                        ELSE <<0, 1>>]
        radar_data == [k \in 1..Len(best_df) |->
                         [col \in Range(indicators) |->
                             Round1(normalize_indicator(best_df[k].c[col].n, extremes[col][1],
                                                        extremes[col][2], is_reverse(col)))]]
    IN  IF present # {} /\ ~({"Runs_Scored", "Year"} \subseteq d.columns)
        THEN [chart |-> "fig5", status |-> "KeyError"]
        ELSE IF present = {} THEN [chart |-> "fig5", status |-> "empty"]
        ELSE IF ~(Range(indicators) \subseteq d.columns)
        THEN [chart |-> "fig5", status |-> "KeyError"]
        ELSE [chart |-> "fig5", status |-> "ok", best_df |-> best_df,
              extremes |-> extremes, radar_data |-> radar_data]

Fig5Columns == {"Player_Name", "Year", "Runs_Scored"} \cup Range(indicators)
Fig5Slots == <<<<ViratKohli, T(2020)>>, <<ViratKohli, T(2021)>>, <<MSDhoni, T(2020)>>,
               <<SuryakumarYadav, T(2020)>>, <<<<"A">>, T(2020)>>>>

Fig5Row(runs, wickets, bowling) ==
    [col \in Fig5Columns \ {"Player_Name", "Year"} |->
        IF col = "Runs_Scored" THEN runs
        ELSE IF col = "Wickets_Taken" THEN wickets
        ELSE IF col = "Bowling_Average" THEN bowling
        ELSE IF col = "Batting_Average" THEN T(40)
        ELSE IF col = "Batting_Strike_Rate" THEN T(130)
        ELSE NoStats]

Fig5Values ==
    {Fig5Row(T(100), T(0), T(0)), Fig5Row(T(200), T(3), T(20)), Fig5Row(T(100), T(3), T(21)),
     Fig5Row(T(200), T(0), T(23)), Fig5Row(NoStats, T(7), T(20)), Fig5Row(T(100), T(7), NoStats)}

InitFig5 ==
    /\ \E S \in SUBSET (1..MaxSlots) : \E v \in [S -> Fig5Values] :
          file = SlotFile(Fig5Columns, Fig5Slots, S, v)
    /\ df = load_and_process_data(file)
    /\ fig = NoFig
    /\ cache = stored(DEFAULT_FILE, df)

PlotFig5 ==
    /\ df.status = "ok" /\ fig.chart = "none"
    /\ fig' = plot_fig5(df)
    /\ UNCHANGED <<file, df, cache>>

NextFig5 == PlotFig5

SpecFig5 == InitFig5 /\ [][NextFig5]_vars

\* the values of a metric over the representative records
BestValues(col) == {fig.best_df[k].c[col].n : k \in 1..Len(fig.best_df)}

\* C4: when a metric's maximum equals its minimum over the representative
\* records, every selected entity gets 5.0 for it (also when all are 0)
C4_DegenerateMidpoint ==
    (fig.chart = "fig5" /\ fig.status = "ok") =>
        \A col \in Range(indicators) :
            SetMax(BestValues(col)) = SetMin(BestValues(col))
                => \A k \in 1..Len(fig.best_df) : fig.radar_data[k][col] = 50

\* C5: every score lies in [0, 10], and the score of the reverse-scored metric
\* is 10 minus the score its value gets under the non-reversed normalization
\* with the same extremes
C5_ScoreBounds ==
    (fig.chart = "fig5" /\ fig.status = "ok") =>
        \A k \in 1..Len(fig.best_df) :
            /\ \A col \in Range(indicators) :
                  fig.radar_data[k][col] >= 0 /\ fig.radar_data[k][col] <= 100
            /\ fig.radar_data[k]["Bowling_Average"] =
                  100 - Round1(normalize_indicator(fig.best_df[k].c["Bowling_Average"].n,
                                                   fig.extremes["Bowling_Average"][1],
                                                   fig.extremes["Bowling_Average"][2], FALSE))

\* three representative records with Bowling_Average 20, 21 and 23: the
\* middle one scores 6.7 = 10 - 3.3, and its Wickets_Taken score is in [0, 10]
C5_Witness ==
    /\ fig.chart = "fig5" /\ fig.status = "ok"
    /\ fig.extremes["Bowling_Average"] = <<20, 23>>
    /\ \E k \in 1..Len(fig.best_df) :
          /\ fig.best_df[k].c["Bowling_Average"] = Num(21)
          /\ fig.radar_data[k]["Bowling_Average"] = 67

(***************************************************************************)
(* plot_fig13: stability (coefficient of variation) by career length.      *)
(***************************************************************************)
CvCutoff == 2

career_group_strict(years) ==
    IF years < 3 THEN "1-3"
    ELSE IF years < 6 THEN "4-6"
    ELSE IF years < 9 THEN "7-9"
    ELSE "10+"
career_group(years) ==
    IF years <= 3 THEN "1-3"
    ELSE IF years <= 6 THEN "4-6"
    ELSE IF years <= 9 THEN "7-9"
    ELSE "10+"

groups == <<"1-3", "4-6", "7-9", "10+">>

\* one row of player_career: the aggregates of the rows of one player.
\* cv_sq is the square of std / mean (np.std is the population deviation):
\* (n * sum(x^2) - sum(x)^2) / sum(x)^2
career_row(rows) ==
    LET I == 1..Len(rows)
        n == Len(rows)
        first == SetMin({rows[i].c["Year"].n : i \in I})
        last == SetMax({rows[i].c["Year"].n : i \in I})
        total == SumOver(I, [i \in I |-> rows[i].c["Batting_Average"].n])
        squares == SumOver(I, [i \in I |-> rows[i].c["Batting_Average"].n
                                              * rows[i].c["Batting_Average"].n])
    IN  [n |-> n, years |-> last - first + 1, total |-> total,
         cv_sq |-> <<n * squares - total * total, total * total>>,
         group |-> career_group(last - first + 1)]

\* player_career['波动系数'] <= 2.0
cv_in_range(row) == row.cv_sq[1] <= CvCutoff * CvCutoff * row.cv_sq[2]

plot_fig13(d) ==
    IF ~({"Batting_Average", "Year", "Player_Name"} \subseteq d.columns)
    THEN [chart |-> "fig13", status |-> "KeyError"]
    ELSE
    LET df_valid == Take(d.rows, {i \in 1..Len(d.rows) :
                        /\ gt(d.rows[i].c["Batting_Average"], 0)
                        /\ notna(d.rows[i].c["Year"])
                        /\ notna(d.rows[i].c["Player_Name"])})
        names == {df_valid[i].c["Player_Name"] : i \in 1..Len(df_valid)}
        of(name) == Take(df_valid, {i \in 1..Len(df_valid) :
                        df_valid[i].c["Player_Name"] = name})
        kept == {name \in names : cv_in_range(career_row(of(name)))}
        player_career == [name \in kept |-> career_row(of(name))]
    IN  IF \E g \in 1..Len(groups) : \A name \in kept : player_career[name].group # groups[g]
        THEN [chart |-> "fig13", status |-> "ValueError"]
        ELSE [chart |-> "fig13", status |-> "ok", player_career |-> player_career]

Fig13Columns == {"Player_Name", "Year", "Batting_Average"}

Fig13Row(name, year, avg) == SlotRow(Fig13Columns, <<name, T(year)>>, [c \in {"Batting_Average"} |-> T(avg)])

\* players that fill the cohorts 4-6, 7-9 and 10+, and one whose six seasons
\* 1, 1, 1, 1, 1, 60 vary too much
Fig13Base ==
    <<Fig13Row(<<"P">>, 2010, 10), Fig13Row(<<"P">>, 2014, 30),
      Fig13Row(<<"Q">>, 2010, 10), Fig13Row(<<"Q">>, 2017, 30),
      Fig13Row(<<"R">>, 2010, 10), Fig13Row(<<"R">>, 2020, 30),
      Fig13Row(<<"V">>, 2010, 1), Fig13Row(<<"V">>, 2012, 1), Fig13Row(<<"V">>, 2014, 1),
      Fig13Row(<<"V">>, 2016, 1), Fig13Row(<<"V">>, 2018, 1), Fig13Row(<<"V">>, 2020, 60)>>

Fig13Slots == <<<<<<"S">>, T(2020)>>, <<<<"E">>, T(2020)>>, <<<<"E">>, T(2021)>>,
                <<<<"E">>, T(2022)>>, <<<<"Z">>, T(2020)>>, <<<<"Z">>, T(2021)>>>>
Fig13Values == {[c \in {"Batting_Average"} |-> a] : a \in {T(0), T(10), T(60), NoStats}}

InitFig13 ==
    /\ \E S \in SUBSET (1..MaxSlots) : \E v \in [S -> Fig13Values] :
          \E base \in {<<>>, Fig13Base} :
              file = [columns |-> Fig13Columns,
                      rows |-> base \o SlotFile(Fig13Columns, Fig13Slots, S, v).rows]
    /\ df = load_and_process_data(file)
    /\ fig = NoFig
    /\ cache = stored(DEFAULT_FILE, df)

PlotFig13 ==
    /\ df.status = "ok" /\ fig.chart = "none"
    /\ fig' = plot_fig13(df)
    /\ UNCHANGED <<file, df, cache>>

NextFig13 == PlotFig13

SpecFig13 == InitFig13 /\ [][NextFig13]_vars

\* the Batting_Average observations of a player in the dataset, by row
ObsRows(name) == {k \in 1..Len(df.rows) :
                    df.rows[k].c["Player_Name"] = name /\ isNum(df.rows[k].c["Batting_Average"])}
ObsValue(k) == df.rows[k].c["Batting_Average"].n
ObsSum(name) == SumOver(ObsRows(name), [k \in ObsRows(name) |-> ObsValue(k)])
ObsSquares(name) == SumOver(ObsRows(name), [k \in ObsRows(name) |-> ObsValue(k) * ObsValue(k)])
Players == {df.rows[k].c["Player_Name"] : k \in 1..Len(df.rows)}

\* C6: an entity whose observations are all equal and positive has CV = 0 and
\* is in the reported cohorts; an entity with exactly one observation, one
\* whose mean is 0 and one whose CV is above 2.0 are not
C6_StabilityCohorts ==
    (fig.chart = "fig13" /\ fig.status = "ok") =>
        \A name \in Players :
            LET n == Cardinality(ObsRows(name))
                included == name \in DOMAIN fig.player_career
            IN  /\ (/\ n >= 2
                     /\ \A k, l \in ObsRows(name) : ObsValue(k) = ObsValue(l) /\ ObsValue(k) > 0)
                        => included /\ fig.player_career[name].cv_sq[1] = 0
                /\ n = 1 => ~included
                /\ (n >= 1 /\ ObsSum(name) = 0) => ~included
                /\ (n >= 2 /\ ObsSum(name) > 0
                     /\ n * ObsSquares(name) - ObsSum(name) * ObsSum(name)
                            > 4 * ObsSum(name) * ObsSum(name))
                        => ~included

\* the rows of a player that plot_fig13 aggregates, and their seasons
CareerRows(name) ==
    {k \in 1..Len(df.rows) :
        /\ df.rows[k].c["Player_Name"] = name
        /\ gt(df.rows[k].c["Batting_Average"], 0)
        /\ isNum(df.rows[k].c["Year"])}
CareerYears(name) == {df.rows[k].c["Year"].n : k \in CareerRows(name)}
CohortOf(n) == CHOOSE g \in Range(groups) :
                  g = (IF n <= 3 THEN "1-3" ELSE IF n <= 6 THEN "4-6"
                       ELSE IF n <= 9 THEN "7-9" ELSE "10+")

\* C15: the cohort of an included entity is the one of its number of
\* observations, so two entities with the same number of observations are
\* in the same cohort
C15_CohortByCount ==
    (fig.chart = "fig13" /\ fig.status = "ok") =>
        /\ \A name \in DOMAIN fig.player_career :
              fig.player_career[name].group = CohortOf(Cardinality(CareerRows(name)))
        /\ \A a, b \in DOMAIN fig.player_career :
              Cardinality(CareerRows(a)) = Cardinality(CareerRows(b))
                  => fig.player_career[a].group = fig.player_career[b].group

\* C15, amended: the cohort of an included entity is the one of the span of
\* its seasons, last season - first season + 1, so two entities with the same
\* span are in the same cohort whatever their numbers of observations
C15_CohortBySpan ==
    (fig.chart = "fig13" /\ fig.status = "ok") =>
        /\ \A name \in DOMAIN fig.player_career :
              /\ fig.player_career[name].group
                    = CohortOf(SetMax(CareerYears(name)) - SetMin(CareerYears(name)) + 1)
              /\ Cardinality({g \in 1..Len(groups) :
                                 fig.player_career[name].group = groups[g]}) = 1
        /\ \A a, b \in DOMAIN fig.player_career :
              SetMax(CareerYears(a)) - SetMin(CareerYears(a))
                    = SetMax(CareerYears(b)) - SetMin(CareerYears(b))
                  => fig.player_career[a].group = fig.player_career[b].group

\* two included entities with two observations each, one spanning three
\* seasons (cohort 1-3) and one spanning eleven (cohort 10+)
C15_Witness ==
    /\ fig.chart = "fig13" /\ fig.status = "ok"
    /\ \E a, b \in DOMAIN fig.player_career :
          /\ Cardinality(CareerRows(a)) = 2 /\ Cardinality(CareerRows(b)) = 2
          /\ fig.player_career[a].years = 3 /\ fig.player_career[a].group = "1-3"
          /\ fig.player_career[b].years = 11 /\ fig.player_career[b].group = "10+"

(***************************************************************************)
(* plot_fig14: quadrants of bowlers by economy and wicket efficiency.      *)
(***************************************************************************)
\* exact quotients <<numerator, denominator>>, denominators positive
RLt(a, b) == a[1] * b[2] < b[1] * a[2]
RLe(a, b) == a[1] * b[2] <= b[1] * a[2]
RGt(a, b) == RLt(b, a)
RGe(a, b) == RLe(b, a)

RECURSIVE SortVals(_, _)
SortVals(S, f) ==
    IF S = {} THEN <<>>
    ELSE LET x == CHOOSE y \in S : \A z \in S : RLe(f[y], f[z])
         IN  <<f[x]>> \o SortVals(S \ {x}, f)

\* Series.median(): the middle value, or the mean of the two middle values
median(S, f) ==
    LET v == SortVals(S, f)
        n == Len(v)
    IN  IF n % 2 = 1 THEN v[(n + 1) \div 2]
        ELSE <<v[n \div 2][1] * v[n \div 2 + 1][2] + v[n \div 2 + 1][1] * v[n \div 2][2],
               2 * v[n \div 2][2] * v[n \div 2 + 1][2]>>

SanityCeiling == 15

quadrants == <<"Q1", "Q2", "Q3", "Q4">>

quadrant_at_or_above(eco, eff, eco_median, wicket_median) ==
    IF RLt(eco, eco_median) /\ RGe(eff, wicket_median) THEN "Q1"
    ELSE IF RLt(eco, eco_median) /\ RLt(eff, wicket_median) THEN "Q2"
    ELSE IF RGe(eco, eco_median) /\ RGe(eff, wicket_median) THEN "Q3"
    ELSE "Q4"
quadrant_other_label(eco, eff, eco_median, wicket_median) ==
    IF RLt(eco, eco_median) /\ RGt(eff, wicket_median) THEN "Q1"
    ELSE IF RLt(eco, eco_median) /\ RLe(eff, wicket_median) THEN "Q2"
    ELSE IF RGe(eco, eco_median) /\ RGt(eff, wicket_median) THEN "Q3"
    ELSE "Q4 "
quadrant(eco, eff, eco_median, wicket_median) ==
    IF RLt(eco, eco_median) /\ RGt(eff, wicket_median) THEN "Q1"
    ELSE IF RLt(eco, eco_median) /\ RLe(eff, wicket_median) THEN "Q2"
    ELSE IF RGe(eco, eco_median) /\ RGt(eff, wicket_median) THEN "Q3"
    ELSE "Q4"

numeric_cols == {"Economy_Rate", "Wickets_Taken", "Balls_Bowled", "Matches_Bowled"}

\* the rows of 2020-2024 with the numeric columns coerced and filled with 0,
\* of which those with Balls_Bowled > 0 and Economy_Rate > 0 are kept
pitcher_rows(d) ==
    LET in_years == Take(d.rows, {i \in 1..Len(d.rows) :
                        ge(d.rows[i].c["Year"], 2020) /\ le(d.rows[i].c["Year"], 2024)})
        filled == [i \in 1..Len(in_years) |->
                     [in_years[i] EXCEPT !.c = [col \in d.columns |->
                         IF col \in numeric_cols THEN fillna0(to_numeric(in_years[i].c[col]))
                         ELSE in_years[i].c[col]]]]
    IN  Take(filled, {i \in 1..Len(filled) :
            gt(filled[i].c["Balls_Bowled"], 0) /\ gt(filled[i].c["Economy_Rate"], 0)})

ColSum(rows, col) == SumOver(1..Len(rows), [i \in 1..Len(rows) |-> rows[i].c[col].n])

\* one row of pitcher_stats
pitcher_row(rows) ==
    [eco |-> <<ColSum(rows, "Economy_Rate"), Len(rows)>>,
     eff |-> <<ColSum(rows, "Wickets_Taken") * 100, ColSum(rows, "Balls_Bowled")>>,
     matches |-> ColSum(rows, "Matches_Bowled")]

plot_fig14(d) ==
    IF ~(({"Year", "Player_Name"} \cup numeric_cols) \subseteq d.columns)
    THEN [chart |-> "fig14", status |-> "KeyError"]
    ELSE
    LET df_pitcher == pitcher_rows(d)
        of(name) == Take(df_pitcher, {i \in 1..Len(df_pitcher) :
                        df_pitcher[i].c["Player_Name"] = name})
        names == {df_pitcher[i].c["Player_Name"] : i \in 1..Len(df_pitcher)}
        valid == {name \in names :
                    /\ RLt(pitcher_row(of(name)).eco, <<SanityCeiling, 1>>)
                    /\ RLt(pitcher_row(of(name)).eff, <<SanityCeiling, 1>>)}
        stats == [name \in valid |-> pitcher_row(of(name))]
        eco_median == median(valid, [name \in valid |-> stats[name].eco])
        wicket_median == median(valid, [name \in valid |-> stats[name].eff])
        typed == [name \in valid |->
                    [eco |-> stats[name].eco, eff |-> stats[name].eff,
                     matches |-> stats[name].matches,
                     quadrant |-> quadrant(stats[name].eco, stats[name].eff,
                                           eco_median, wicket_median)]]
    IN  IF valid = {} THEN [chart |-> "fig14", status |-> "ValueError"]
        ELSE [chart |-> "fig14", status |-> "ok", pitcher_stats |-> typed,
              eco_median |-> eco_median, wicket_median |-> wicket_median,
              counts |-> [q \in Range(quadrants) |->
                            Cardinality({name \in valid : typed[name].quadrant = q})]]

Fig14Columns == {"Player_Name", "Year"} \cup numeric_cols
Fig14Slots == <<<<<<"A">>, T(2020)>>, <<<<"B">>, T(2020)>>, <<<<"C">>, T(2021)>>,
                <<<<"D">>, T(2024)>>, <<<<"A">>, T(2021)>>, <<<<"B">>, T(2019)>>>>

Fig14Row(eco, wickets, balls) ==
    [col \in numeric_cols |->
        IF col = "Economy_Rate" THEN eco
        ELSE IF col = "Wickets_Taken" THEN wickets
        ELSE IF col = "Balls_Bowled" THEN balls
        ELSE T(5)]

Fig14Values ==
    {Fig14Row(T(1), T(1), T(100)), Fig14Row(T(1), T(9), T(100)), Fig14Row(T(9), T(1), T(100)),
     Fig14Row(T(9), T(9), T(100)), Fig14Row(T(20), T(1), T(100)), Fig14Row(T(9), T(20), T(100)),
     Fig14Row(T(1), T(0), T(0))}

InitFig14 ==
    /\ \E S \in SUBSET (1..MaxSlots) : \E v \in [S -> Fig14Values] :
          file = SlotFile(Fig14Columns, Fig14Slots, S, v)
    /\ df = load_and_process_data(file)
    /\ fig = NoFig
    /\ cache = stored(DEFAULT_FILE, df)

PlotFig14 ==
    /\ df.status = "ok" /\ fig.chart = "none"
    /\ fig' = plot_fig14(df)
    /\ UNCHANGED <<file, df, cache>>

NextFig14 == PlotFig14

SpecFig14 == InitFig14 /\ [][NextFig14]_vars

\* the rows of the dataset that count for a bowler, and the bowlers that pass
\* the validity filters (mean economy < 15, wickets per 100 balls < 15)
BowlingRows(name) ==
    {k \in 1..Len(df.rows) :
        /\ df.rows[k].c["Player_Name"] = name
        /\ ge(df.rows[k].c["Year"], 2020) /\ le(df.rows[k].c["Year"], 2024)
        /\ gt(df.rows[k].c["Balls_Bowled"], 0) /\ gt(df.rows[k].c["Economy_Rate"], 0)}
BowlingSum(name, col) ==
    SumOver(BowlingRows(name), [k \in BowlingRows(name) |-> fillna0(df.rows[k].c[col]).n])
ValidBowlers ==
    {name \in Players :
        /\ BowlingRows(name) # {}
        /\ BowlingSum(name, "Economy_Rate") < 15 * Cardinality(BowlingRows(name))
        /\ 100 * BowlingSum(name, "Wickets_Taken") < 15 * BowlingSum(name, "Balls_Bowled")}

\* the (economy, efficiency) points of the classified bowlers, when integers
Points == {<<fig.pitcher_stats[name].eco, fig.pitcher_stats[name].eff>> :
             name \in DOMAIN fig.pitcher_stats}
IsPoint(p, x, y) == p[1][1] = x * p[1][2] /\ p[2][1] = y * p[2][2]

\* C7: every bowler that passes the validity filters is in exactly one of the
\* quadrants Q1..Q4, so the four counts sum to the number of valid bowlers;
\* four bowlers at (1,1), (1,9), (9,1), (9,9) give a count of 1 per quadrant
C7_QuadrantComplete ==
    (fig.chart = "fig14" /\ fig.status = "ok") =>
        /\ DOMAIN fig.pitcher_stats = ValidBowlers
        /\ \A name \in ValidBowlers :
              Cardinality({q \in 1..Len(quadrants) :
                             fig.pitcher_stats[name].quadrant = quadrants[q]}) = 1
        /\ SumOver(Range(quadrants), fig.counts) = Cardinality(ValidBowlers)
        /\ (/\ Cardinality(ValidBowlers) = 4
             /\ \A x \in {1, 9}, y \in {1, 9} : \E p \in Points : IsPoint(p, x, y))
                => \A q \in Range(quadrants) : fig.counts[q] = 1

\* the four bowlers of the scenario: medians (5, 5), one bowler per quadrant
C7_Witness ==
    /\ fig.chart = "fig14" /\ fig.status = "ok"
    /\ Cardinality(ValidBowlers) = 4
    /\ \A x \in {1, 9}, y \in {1, 9} : \E p \in Points : IsPoint(p, x, y)
    /\ IsPoint(<<fig.eco_median, fig.wicket_median>>, 5, 5)
    /\ \A q \in Range(quadrants) : fig.counts[q] = 1

\* the two values of a valid bowler and their medians, from the dataset
Economy(name) == <<BowlingSum(name, "Economy_Rate"), Cardinality(BowlingRows(name))>>
Efficiency(name) == <<100 * BowlingSum(name, "Wickets_Taken"), BowlingSum(name, "Balls_Bowled")>>
EconomyMedian == median(ValidBowlers, [name \in ValidBowlers |-> Economy(name)])
EfficiencyMedian == median(ValidBowlers, [name \in ValidBowlers |-> Efficiency(name)])
REq(a, b) == a[1] * b[2] = b[1] * a[2]

\* C14: on both axes the quadrant splits 'below the median' from 'at or
\* above the median'
C14_AtOrAboveSplit ==
    (fig.chart = "fig14" /\ fig.status = "ok") =>
        \A name \in ValidBowlers :
            /\ fig.pitcher_stats[name].quadrant \in {"Q1", "Q2"}
                  <=> RLt(Economy(name), EconomyMedian)
            /\ fig.pitcher_stats[name].quadrant \in {"Q2", "Q4"}
                  <=> RLt(Efficiency(name), EfficiencyMedian)

\* C14, amended: the economy axis splits 'below the median' from 'at or
\* above the median', the wicket-efficiency axis 'above the median' from 'at
\* or below the median'
C14_MedianSplit ==
    (fig.chart = "fig14" /\ fig.status = "ok") =>
        LET eco == [name \in ValidBowlers |-> Economy(name)]
            eff == [name \in ValidBowlers |-> Efficiency(name)]
            eco_median == median(DOMAIN eco, eco)
            eff_median == median(DOMAIN eff, eff)
        IN  \A name \in DOMAIN eco :
                /\ fig.pitcher_stats[name].quadrant \in {"Q1", "Q2"}
                      <=> RLt(eco[name], eco_median)
                /\ fig.pitcher_stats[name].quadrant \in {"Q1", "Q3"}
                      <=> RGt(eff[name], eff_median)

\* among three bowlers or more, one lies on both medians and is in Q4, and
\* one lies on the efficiency median below the economy median and is in Q2
C14_Witness ==
    /\ fig.chart = "fig14" /\ fig.status = "ok"
    /\ Cardinality(ValidBowlers) >= 3
    /\ \E name \in ValidBowlers :
          /\ REq(Economy(name), EconomyMedian) /\ REq(Efficiency(name), EfficiencyMedian)
          /\ fig.pitcher_stats[name].quadrant = "Q4"
    /\ \E name \in ValidBowlers :
          /\ RLt(Economy(name), EconomyMedian) /\ REq(Efficiency(name), EfficiencyMedian)
          /\ fig.pitcher_stats[name].quadrant = "Q2"

(***************************************************************************)
(* plot_fig15: shares of the player types by season.                       *)
(***************************************************************************)
player_types == <<"batter", "bowler", "allrounder", "marginal">>

player_type(ba, wt) ==
    IF ba >= 25 /\ wt <= 2 THEN "batter"
    ELSE IF wt >= 5 /\ ba <= 15 THEN "bowler"
    ELSE IF ba >= 20 /\ wt >= 3 THEN "allrounder"
    ELSE "marginal"

InYears(c, first, last) == ge(c, first) /\ le(c, last)

plot_fig15(d) ==
    IF ~({"Year", "Player_Name", "Batting_Average", "Wickets_Taken"} \subseteq d.columns)
    THEN [chart |-> "fig15", status |-> "KeyError"]
    ELSE
    LET df_valid == Take(d.rows, {i \in 1..Len(d.rows) :
                        /\ InYears(d.rows[i].c["Year"], 2010, 2024)
                        /\ notna(d.rows[i].c["Player_Name"])})
        I == 1..Len(df_valid)
        type == [i \in I |->
                    player_type(fillna0(to_numeric(df_valid[i].c["Batting_Average"])).n,
                                fillna0(to_numeric(df_valid[i].c["Wickets_Taken"])).n)]
        years == {df_valid[i].c["Year"].n : i \in I}
        \* groupby(['Year', type]).size().unstack(fill_value=0): a column for
        \* each type that occurs in some season
        present == {type[i] : i \in I}
        size(y, t) == Cardinality({i \in I : df_valid[i].c["Year"].n = y /\ type[i] = t})
        total == [y \in years |-> SumOver(present, [t \in present |-> size(y, t)])]
    IN  IF ~(Range(player_types) \subseteq present)
        THEN [chart |-> "fig15", status |-> "KeyError"]
        ELSE [chart |-> "fig15", status |-> "ok", total |-> total,
              stack_data |-> [y \in years |->
                                [t \in Range(player_types) |-> Rate(size(y, t), total[y])]]]

Fig15Columns == {"Player_Name", "Year", "Batting_Average", "Wickets_Taken"}
Fig15Slots == <<<<<<"A">>, T(2020)>>, <<<<"B">>, T(2020)>>, <<<<"C">>, T(2021)>>,
                <<<<"D">>, T(2021)>>, <<<<"E">>, T(2020)>>, <<<<"F">>, T(2009)>>>>
Fig15Row(ba, wt) ==
    [col \in {"Batting_Average", "Wickets_Taken"} |-> IF col = "Batting_Average" THEN ba ELSE wt]
Fig15Values ==
    {Fig15Row(T(30), T(0)), Fig15Row(T(10), T(5)), Fig15Row(T(25), T(3)), Fig15Row(T(10), T(0)),
     Fig15Row(NoStats, NoStats)}

InitFig15 ==
    /\ \E S \in SUBSET (1..MaxSlots) : \E v \in [S -> Fig15Values] :
          file = SlotFile(Fig15Columns, Fig15Slots, S, v)
    /\ df = load_and_process_data(file)
    /\ fig = NoFig
    /\ cache = stored(DEFAULT_FILE, df)

PlotFig15 ==
    /\ df.status = "ok" /\ fig.chart = "none"
    /\ fig' = plot_fig15(df)
    /\ UNCHANGED <<file, df, cache>>

NextFig15 == PlotFig15

SpecFig15 == InitFig15 /\ [][NextFig15]_vars

\* the seasons of 2010-2024 that have a row in the dataset
Seasons(first, last) ==
    {df.rows[k].c["Year"].n : k \in {j \in 1..Len(df.rows) :
                                         InYears(df.rows[j].c["Year"], first, last)}}

\* C8: for every season with a row in 2010-2024 a share is produced for each
\* of the four categories (0 for a category without rows), and the four
\* shares of the season sum to 100 within 0.2
C8_TypeSharesSumTo100 ==
    fig.chart = "fig15" =>
        \A y \in Seasons(2010, 2024) :
            /\ fig.status = "ok"
            /\ y \in DOMAIN fig.stack_data
            /\ DOMAIN fig.stack_data[y] = Range(player_types)
            /\ \A t \in Range(player_types) :
                  (\A k \in 1..Len(df.rows) :
                      df.rows[k].c["Year"] = Num(y) =>
                          player_type(fillna0(df.rows[k].c["Batting_Average"]).n,
                                      fillna0(df.rows[k].c["Wickets_Taken"]).n) # t)
                      => fig.stack_data[y][t] = 0
            /\ SumOver(Range(player_types), fig.stack_data[y]) >= 998
            /\ SumOver(Range(player_types), fig.stack_data[y]) <= 1002

(***************************************************************************)
(* plot_fig8: shares of the scoring components in Runs_Scored by season.   *)
(***************************************************************************)
score_cols == <<"Centuries", "Half_Centuries", "Fours", "Sixes">>

\* np.where(whole > 0, part / whole * 100, 0), as an exact quotient
share(part, whole) == IF whole > 0 THEN <<part * 100, whole>> ELSE <<0, 1>>

plot_fig8(d) ==
    IF ~(({"Year", "Runs_Scored"} \cup Range(score_cols)) \subseteq d.columns)
    THEN [chart |-> "fig8", status |-> "KeyError"]
    ELSE
    LET core_cols == {"Year", "Runs_Scored"} \cup Range(score_cols)
        df_valid == Take(d.rows, {i \in 1..Len(d.rows) :
                        /\ \A col \in core_cols : notna(d.rows[i].c[col])
                        /\ InYears(d.rows[i].c["Year"], 2010, 2024)})
        years == {df_valid[i].c["Year"].n : i \in 1..Len(df_valid)}
        of(y) == Take(df_valid, {i \in 1..Len(df_valid) : df_valid[i].c["Year"].n = y})
        yearly_score == [y \in years |->
                            [col \in Range(score_cols) \cup {"Runs_Scored"} |->
                                ColSum(of(y), col)]]
    IN  [chart |-> "fig8", status |-> "ok", yearly_score |-> yearly_score,
         shares |-> [y \in years |->
                        [col \in Range(score_cols) |->
                            share(yearly_score[y][col], yearly_score[y]["Runs_Scored"])]]]

Fig8Columns == {"Player_Name", "Year", "Runs_Scored"} \cup Range(score_cols)
Fig8Slots == <<<<<<"A">>, T(2020)>>, <<<<"B">>, T(2020)>>, <<<<"C">>, T(2021)>>,
               <<<<"D">>, T(2021)>>, <<<<"E">>, T(2009)>>, <<<<"F">>, T(2020)>>>>
Fig8Row(c, h, f, x, runs) ==
    [col \in Fig8Columns \ {"Player_Name", "Year"} |->
        IF col = "Centuries" THEN c
        ELSE IF col = "Half_Centuries" THEN h
        ELSE IF col = "Fours" THEN f
        ELSE IF col = "Sixes" THEN x
        ELSE runs]
Fig8Values ==
    {Fig8Row(T(0), T(0), T(0), T(0), T(0)), Fig8Row(T(1), T(2), T(10), T(5), T(300)),
     Fig8Row(T(1), T(2), T(3), T(4), T(10)), Fig8Row(T(1), T(1), T(1), NoStats, T(50))}

InitFig8 ==
    /\ \E S \in SUBSET (1..MaxSlots) : \E v \in [S -> Fig8Values] :
          file = SlotFile(Fig8Columns, Fig8Slots, S, v)
    /\ df = load_and_process_data(file)
    /\ fig = NoFig
    /\ cache = stored(DEFAULT_FILE, df)

PlotFig8 ==
    /\ df.status = "ok" /\ fig.chart = "none"
    /\ fig' = plot_fig8(df)
    /\ UNCHANGED <<file, df, cache>>

NextFig8 == PlotFig8

SpecFig8 == InitFig8 /\ [][NextFig8]_vars

\* the rows of a season that have every core column, and their sums
SeasonRows(y) ==
    {k \in 1..Len(df.rows) :
        /\ df.rows[k].c["Year"] = Num(y)
        /\ \A col \in Range(score_cols) \cup {"Runs_Scored"} : isNum(df.rows[k].c[col])}
SeasonSum(y, col) == SumOver(SeasonRows(y), [k \in SeasonRows(y) |-> df.rows[k].c[col].n])
Fig8Seasons == {y \in Seasons(2010, 2024) : SeasonRows(y) # {}}
ShareSum(y) == SumOver(Range(score_cols), [col \in Range(score_cols) |-> fig.shares[y][col][1]])

\* C9: in every season the four component shares sum to 100 within
\* 0.2 when the season's Runs_Scored is nonzero, and are all 0 when it is zero
C9_SharesSumTo100 ==
    (fig.chart = "fig8" /\ fig.status = "ok") =>
        \A y \in Fig8Seasons :
            LET whole == SeasonSum(y, "Runs_Scored")
            IN  /\ whole # 0 => /\ 10 * ShareSum(y) >= 998 * whole
                                 /\ 10 * ShareSum(y) <= 1002 * whole
                /\ whole = 0 => \A col \in Range(score_cols) : fig.shares[y][col] = <<0, 1>>

\* what plot_fig8 computes instead: each component's share is 100 * (sum of
\* the component) / (sum of Runs_Scored) when that whole is positive, so the
\* four shares sum to 100 * (sum of the four components) / whole; every
\* share is 0 when the whole is zero
Fig8SharesOfWhole ==
    (fig.chart = "fig8" /\ fig.status = "ok") =>
        /\ DOMAIN fig.shares = Fig8Seasons
        /\ \A y \in Fig8Seasons :
              LET whole == SeasonSum(y, "Runs_Scored")
              IN  /\ whole > 0 =>
                        /\ \A col \in Range(score_cols) :
                              /\ fig.shares[y][col][2] > 0
                              /\ fig.shares[y][col][1] * whole
                                    = 100 * SeasonSum(y, col) * fig.shares[y][col][2]
                        /\ ShareSum(y) =
                              100 * SumOver(Range(score_cols),
                                            [col \in Range(score_cols) |-> SeasonSum(y, col)])
                  /\ whole = 0 =>
                        \A col \in Range(score_cols) : fig.shares[y][col] = <<0, 1>>

\* a season whose shares sum to 6 percent of a positive whole, and a season
\* whose whole is zero with all shares 0
Fig8SharesWitness ==
    /\ fig.chart = "fig8" /\ fig.status = "ok"
    /\ \E y, z \in Fig8Seasons :
          /\ SeasonSum(y, "Runs_Scored") = 300 /\ ShareSum(y) = 1800
          /\ SeasonSum(z, "Runs_Scored") = 0
          /\ \A col \in Range(score_cols) : fig.shares[z][col] = <<0, 1>>

(***************************************************************************)
(* Analyses run on a dataset that lacks a declared numeric column.         *)
(***************************************************************************)
\* the numeric columns plot_fig1, plot_fig5 and plot_fig14 read
SchemaNumeric == {"Runs_Scored"} \cup Range(indicators) \cup numeric_cols
SchemaSlots == <<<<ViratKohli, T(2020)>>, <<MSDhoni, T(2021)>>, <<<<"A">>, T(2020)>>,
                 <<<<"B">>, T(2021)>>, <<<<"A">>, T(2021)>>>>
SchemaRow(runs, wickets) ==
    [col \in SchemaNumeric |->
        IF col = "Runs_Scored" THEN runs
        ELSE IF col = "Wickets_Taken" THEN wickets
        ELSE IF col = "Balls_Bowled" THEN T(100)
        ELSE T(5)]
SchemaValues == {SchemaRow(T(200), T(3)), SchemaRow(T(0), NoStats)}

\* a file with every column, or without one of the numeric columns
InitSchema ==
    /\ \E absent \in {{}} \cup {{col} : col \in SchemaNumeric} :
       \E S \in SUBSET (1..MaxSlots) : \E v \in [S -> SchemaValues] :
          file = SlotFile({"Player_Name", "Year"} \cup (SchemaNumeric \ absent),
                          SchemaSlots, S, v)
    /\ df = load_and_process_data(file)
    /\ fig = NoFig
    /\ cache = stored(DEFAULT_FILE, df)

NextSchema == PlotFig1 \/ PlotFig5 \/ PlotFig14

SpecSchema == InitSchema /\ [][NextSchema]_vars

\* C11: when a declared numeric column is absent from the canonical dataset,
\* the analysis completes with a result instead of ending with the error of
\* the missing column
C11_AbsentColumnDegrades ==
    \A col \in stats_columns :
        (col \notin df.columns /\ fig.chart # "none") => fig.status # "KeyError"

(***************************************************************************)
(* plot_fig3: seasons of Virat Kohli in three phase windows.               *)
(***************************************************************************)
\* DataFrame.sort_values('Year'), rows of equal Year in their given order
sort_values_year(rows) ==
    LET n == Len(rows)
        rank(i) == 1 + Cardinality({j \in 1..n :
                          \/ rows[j].c["Year"].n < rows[i].c["Year"].n
                          \/ rows[j].c["Year"].n = rows[i].c["Year"].n /\ j < i})
    IN  [k \in 1..n |-> rows[CHOOSE i \in 1..n : rank(i) = k]]

phase(rows, first, last) ==
    Take(rows, {i \in 1..Len(rows) : ge(rows[i].c["Year"], first) /\ le(rows[i].c["Year"], last)})

\* the Year at .iloc[-1] instead of .iloc[0]
first_year_with_last(rows, score) ==
    rows[SetMax({i \in 1..Len(rows) : rows[i].c["Runs_Scored"] = Num(score)})].c["Year"].n
first_year_with(rows, score) ==
    rows[SetMin({i \in 1..Len(rows) : rows[i].c["Runs_Scored"] = Num(score)})].c["Year"].n

plot_fig3(d) ==
    IF "Player_Name" \notin d.columns THEN [chart |-> "fig3", status |-> "KeyError"]
    ELSE
    LET kohli == Take(d.rows, {i \in 1..Len(d.rows) : d.rows[i].c["Player_Name"] = Str(ViratKohli)})
        valid == Take(kohli, {i \in 1..Len(kohli) :
                     notna(kohli[i].c["Year"]) /\ notna(kohli[i].c["Runs_Scored"])})
        kohli_df == sort_values_year(
                        [i \in 1..Len(valid) |->
                            [valid[i] EXCEPT !.c = [col \in d.columns |->
                                IF col \in {"Year", "Runs_Scored"} THEN to_numeric(valid[i].c[col])
                                ELSE IF col = "Wickets_Taken"
                                     THEN fillna0(to_numeric(valid[i].c[col]))
                                     ELSE valid[i].c[col]]]])
        growth_phase == phase(kohli_df, 2008, 2012)
        peak_phase == phase(kohli_df, 2013, 2018)
        stable_phase == phase(kohli_df, 2019, 2024)
        peak_max_score == IF peak_phase # <<>>
                          THEN SetMax({peak_phase[i].c["Runs_Scored"].n : i \in 1..Len(peak_phase)})
                          ELSE 0
        peak_year == IF peak_phase # <<>> THEN first_year_with(peak_phase, peak_max_score)
                     ELSE 2015
    IN  IF kohli = <<>> THEN [chart |-> "fig3", status |-> "empty"]
        ELSE IF ~({"Year", "Runs_Scored", "Wickets_Taken"} \subseteq d.columns)
        THEN [chart |-> "fig3", status |-> "KeyError"]
        ELSE [chart |-> "fig3", status |-> "ok", kohli_df |-> kohli_df,
              growth_phase |-> growth_phase, peak_phase |-> peak_phase,
              stable_phase |-> stable_phase,
              peak_max_score |-> peak_max_score, peak_year |-> peak_year]

Fig3Columns == {"Player_Name", "Year", "Runs_Scored", "Wickets_Taken"}
Fig3Slots == <<<<ViratKohli, T(2018)>>, <<<<"A">>, T(2014)>>, <<ViratKohli, T(2013)>>,
               <<ViratKohli, T(2012)>>, <<ViratKohli, T(2019)>>, <<ViratKohli, T(2007)>>>>
Fig3Row(runs, wickets) ==
    [col \in {"Runs_Scored", "Wickets_Taken"} |-> IF col = "Runs_Scored" THEN runs ELSE wickets]
Fig3Values == {Fig3Row(T(300), T(0)), Fig3Row(T(500), NoStats), Fig3Row(NoStats, T(1))}

InitFig3 ==
    /\ \E S \in SUBSET (1..MaxSlots) : \E v \in [S -> Fig3Values] :
          file = SlotFile(Fig3Columns, Fig3Slots, S, v)
    /\ df = load_and_process_data(file)
    /\ fig = NoFig
    /\ cache = stored(DEFAULT_FILE, df)

PlotFig3 ==
    /\ df.status = "ok" /\ fig.chart = "none"
    /\ fig' = plot_fig3(df)
    /\ UNCHANGED <<file, df, cache>>

NextFig3 == PlotFig3

SpecFig3 == InitFig3 /\ [][NextFig3]_vars

\* the rows of the player in the dataset, and those a window covers
KohliRows == {k \in 1..Len(df.rows) : df.rows[k].c["Player_Name"] = Str(ViratKohli)}
InWindow(first, last) ==
    {k \in KohliRows : /\ InYears(df.rows[k].c["Year"], first, last)
                       /\ isNum(df.rows[k].c["Runs_Scored"])}
IdxOf(rows) == {rows[i].idx : i \in 1..Len(rows)}

\* C16: the three windows are pairwise disjoint and each holds the rows of
\* its seasons; the peak value is the maximum Runs_Scored of the peak window
\* and the peak season the earliest season of the window that attains it;
\* without rows of the player the result is empty and nothing is raised
C16_PhaseWindows ==
    fig.chart = "fig3" =>
        /\ fig.status \in {"ok", "empty"}
        /\ KohliRows = {} => fig.status = "empty"
        /\ fig.status = "ok" =>
              LET G == IdxOf(fig.growth_phase)
                  P == IdxOf(fig.peak_phase)
                  Q == IdxOf(fig.stable_phase)
                  peak == {df.rows[k] : k \in InWindow(2013, 2018)}
              IN  /\ G \cap P = {} /\ P \cap Q = {} /\ G \cap Q = {}
                  /\ G = {df.rows[k].idx : k \in InWindow(2008, 2012)}
                  /\ P = {df.rows[k].idx : k \in InWindow(2013, 2018)}
                  /\ Q = {df.rows[k].idx : k \in InWindow(2019, 2024)}
                  /\ peak # {} =>
                        /\ \A r \in peak : r.c["Runs_Scored"].n <= fig.peak_max_score
                        /\ \E r \in peak :
                              /\ r.c["Runs_Scored"].n = fig.peak_max_score
                              /\ r.c["Year"].n = fig.peak_year
                        /\ \A r \in peak :
                              r.c["Runs_Scored"].n = fig.peak_max_score
                                  => fig.peak_year <= r.c["Year"].n

\* two seasons of the peak window share the maximum, the later one first in
\* the file, and a season lies on each side of the window
C16_Witness ==
    /\ fig.chart = "fig3" /\ fig.status = "ok"
    /\ fig.peak_max_score = 500 /\ fig.peak_year = 2013
    /\ \E k, l \in InWindow(2013, 2018) :
          /\ k < l /\ df.rows[k].c["Year"] = Num(2018)
          /\ df.rows[k].c["Runs_Scored"] = Num(500) /\ df.rows[l].c["Runs_Scored"] = Num(500)
    /\ InWindow(2008, 2012) # {}

(***************************************************************************)
(* plot_fig9: players and mean Runs_Scored by Batting_Average interval.    *)
(***************************************************************************)
bins == <<0, 10, 20, 30, 40, 50, 100>>
labels == <<"0-10", "11-20", "21-30", "31-40", "41-50", "50+">>

\* pd.cut(x, bins, labels, right=True): the interval (bins[i], bins[i+1]]
\* that holds x, or no interval
cut(x) ==
    IF \E i \in 1..Len(labels) : bins[i] < x /\ x <= bins[i + 1]
    THEN labels[CHOOSE i \in 1..Len(labels) : bins[i] < x /\ x <= bins[i + 1]]
    ELSE "nan"

\* observed is the default of DataFrame.groupby for a categorical key in the
\* installed pandas: FALSE lists the six intervals, TRUE those that have rows
plot_fig9(d, observed) ==
    IF ~({"Year", "Batting_Average", "Runs_Scored", "Player_Name"} \subseteq d.columns)
    THEN [chart |-> "fig9", status |-> "KeyError"]
    ELSE
    LET df_valid == Take(d.rows, {i \in 1..Len(d.rows) :
                        /\ \A col \in {"Year", "Batting_Average", "Runs_Scored", "Player_Name"} :
                              notna(d.rows[i].c[col])
                        /\ InYears(d.rows[i].c["Year"], 2010, 2024)})
        interval == [i \in 1..Len(df_valid) |-> cut(df_valid[i].c["Batting_Average"].n)]
        of(label) == Take(df_valid, {i \in 1..Len(df_valid) : interval[i] = label})
        shown == IF observed THEN {interval[i] : i \in 1..Len(df_valid)} \ {"nan"}
                 ELSE Range(labels)
        interval_stats == [label \in shown |->
                              [count |-> Len(of(label)),
                               mean |-> <<ColSum(of(label), "Runs_Scored"), Len(of(label))>>]]
    IN  \* int(y) of the mean of an interval without rows
        IF \E label \in shown : Len(of(label)) = 0
        THEN [chart |-> "fig9", status |-> "ValueError"]
        ELSE [chart |-> "fig9", status |-> "ok", interval_stats |-> interval_stats]

Fig9Columns == {"Player_Name", "Year", "Batting_Average", "Runs_Scored"}
Fig9Row(name, avg) ==
    SlotRow(Fig9Columns, <<name, T(2015)>>,
            [col \in {"Batting_Average", "Runs_Scored"} |->
                IF col = "Batting_Average" THEN T(avg) ELSE T(100)])
\* a row in each of the six intervals
Fig9Base ==
    <<Fig9Row(<<"P">>, 5), Fig9Row(<<"Q">>, 20), Fig9Row(<<"R">>, 21),
      Fig9Row(<<"U">>, 40), Fig9Row(<<"V">>, 45), Fig9Row(<<"W">>, 100)>>
Fig9Slots == <<<<<<"A">>, T(2020)>>, <<<<"B">>, T(2020)>>, <<<<"A">>, T(2021)>>,
               <<<<"C">>, T(2009)>>, <<<<"D">>, T(2024)>>, <<<<"E">>, T(2010)>>>>
Fig9Values ==
    {[col \in {"Batting_Average", "Runs_Scored"} |->
        IF col = "Batting_Average" THEN a ELSE T(50)] : a \in {T(0), T(10), T(11), NoStats}}

InitFig9 ==
    /\ \E base \in {<<>>, Fig9Base} :
       \E S \in SUBSET (1..MaxSlots) : \E v \in [S -> Fig9Values] :
          file = [columns |-> Fig9Columns,
                  rows |-> base \o SlotFile(Fig9Columns, Fig9Slots, S, v).rows]
    /\ df = load_and_process_data(file)
    /\ fig = NoFig
    /\ cache = stored(DEFAULT_FILE, df)

PlotFig9 ==
    /\ df.status = "ok" /\ fig.chart = "none"
    /\ \E observed \in BOOLEAN : fig' = plot_fig9(df, observed)
    /\ UNCHANGED <<file, df, cache>>

NextFig9 == PlotFig9

SpecFig9 == InitFig9 /\ [][NextFig9]_vars

\* the rows of 2010-2024 with Batting_Average, Runs_Scored and Player_Name
BinnedRows ==
    {k \in 1..Len(df.rows) :
        /\ InYears(df.rows[k].c["Year"], 2010, 2024)
        /\ \A col \in {"Batting_Average", "Runs_Scored", "Player_Name"} : notna(df.rows[k].c[col])}

\* C18: every such row is counted in exactly one of the intervals, so that
\* the reported counts sum to the number of these rows
C18_BinsCoverRows ==
    (fig.chart = "fig9" /\ fig.status = "ok") =>
        SumOver(DOMAIN fig.interval_stats,
                [label \in DOMAIN fig.interval_stats |-> fig.interval_stats[label].count])
            = Cardinality(BinnedRows)

(***************************************************************************)
(* plot_fig7: runs and wickets per match.                                  *)
(***************************************************************************)
fig7_cols ==
    {"Year", "Matches_Batted", "Runs_Scored", "Batting_Average", "Matches_Bowled",
     "Wickets_Taken", "Bowling_Average"}

\* part / whole with inf, -inf and NaN replaced by 0
efficiency(part, whole) == IF whole = 0 THEN <<0, 1>> ELSE <<part, whole>>

\* .iloc[0] of the rows above the threshold, 0 standing for None
first_above(rows, col, threshold) ==
    IF \E i \in 1..Len(rows) : RGt(rows[i][col], <<threshold, 1>>)
    THEN rows[SetMin({i \in 1..Len(rows) : RGt(rows[i][col], <<threshold, 1>>)})].idx
    ELSE 0

plot_fig7(d) ==
    IF ~(fig7_cols \subseteq d.columns) THEN [chart |-> "fig7", status |-> "KeyError"]
    ELSE
    LET kept == Take(d.rows, {i \in 1..Len(d.rows) :
                    /\ \A col \in fig7_cols : notna(d.rows[i].c[col])
                    /\ InYears(d.rows[i].c["Year"], 2010, 2024)})
        df_valid == [i \in 1..Len(kept) |->
                       [idx |-> kept[i].idx,
                        bat |-> efficiency(kept[i].c["Runs_Scored"].n,
                                           kept[i].c["Matches_Batted"].n),
                        bowl |-> efficiency(kept[i].c["Wickets_Taken"].n,
                                            kept[i].c["Matches_Bowled"].n)]]
    IN  IF "Player_Name" \notin d.columns /\ first_above(df_valid, "bat", 50) # 0
        THEN [chart |-> "fig7", status |-> "KeyError"]
        ELSE [chart |-> "fig7", status |-> "ok", df_valid |-> df_valid,
              top_bat |-> first_above(df_valid, "bat", 50),
              top_bowl |-> first_above(df_valid, "bowl", 2)]

(***************************************************************************)
(* plot_fig12: number of distinct players by season.                       *)
(***************************************************************************)
MinPlayers == 10

\* df['Year'] = pd.to_numeric(df['Year'], errors='coerce'): the assignment is
\* made on the table that was passed in
plot_fig12_frame_fillna(d) ==
    IF "Year" \notin d.columns THEN d
    ELSE [d EXCEPT !.rows = SetCol(d.rows, "Year",
                                   [i \in 1..Len(d.rows) |->
                                       fillna0(to_numeric(d.rows[i].c["Year"]))])]
plot_fig12_frame(d) ==
    IF "Year" \notin d.columns THEN d
    ELSE [d EXCEPT !.rows = SetCol(d.rows, "Year",
                                   [i \in 1..Len(d.rows) |-> to_numeric(d.rows[i].c["Year"])])]

plot_fig12(d) ==
    IF ~({"Year", "Player_Name"} \subseteq d.columns)
    THEN [chart |-> "fig12", status |-> "KeyError"]
    ELSE
    LET rows == plot_fig12_frame(d).rows
        valid_years == Take(rows, {i \in 1..Len(rows) : InYears(rows[i].c["Year"], 2008, 2024)})
        years == {valid_years[i].c["Year"].n : i \in 1..Len(valid_years)}
        nunique(y) == Cardinality({valid_years[i].c["Player_Name"] :
                                      i \in {j \in 1..Len(valid_years) :
                                                /\ valid_years[j].c["Year"].n = y
                                                /\ notna(valid_years[j].c["Player_Name"])}})
    IN  [chart |-> "fig12", status |-> "ok",
         yearly_players |-> [y \in {z \in years : nunique(z) >= MinPlayers} |-> nunique(y)]]

(***************************************************************************)
(* The script: each run loads the table through the memoized loader and    *)
(* hands it to the requested analysis inside try/except.                   *)
(***************************************************************************)
\* the charts of the sidebar whose analysis has one outcome for a table
charts == {"fig1", "fig12", "fig15", "fig8", "fig13", "fig14", "fig7", "fig3", "fig5"}

chart_map(chart, d) ==
    CASE chart = "fig1" -> plot_fig1(d)
      [] chart = "fig12" -> plot_fig12(d)
      [] chart = "fig15" -> plot_fig15(d)
      [] chart = "fig8" -> plot_fig8(d)
      [] chart = "fig13" -> plot_fig13(d)
      [] chart = "fig14" -> plot_fig14(d)
      [] chart = "fig7" -> plot_fig7(d)
      [] chart = "fig3" -> plot_fig3(d)
      [] chart = "fig5" -> plot_fig5(d)

\* plot_fig15 filling Batting_Average in the table itself, not in a copy
frame_after_no_copy(chart, d) ==
    IF chart = "fig12" THEN plot_fig12_frame(d)
    ELSE IF chart = "fig15" /\ "Batting_Average" \in d.columns
    THEN [d EXCEPT !.rows = SetCol(d.rows, "Batting_Average",
                                   [i \in 1..Len(d.rows) |->
                                       fillna0(d.rows[i].c["Batting_Average"])])]
    ELSE d
\* the table the caller holds once the analysis has returned or raised:
\* plot_fig12 assigns to a column of it, the other analyses work on a copy
frame_after(chart, d) == IF chart = "fig12" THEN plot_fig12_frame(d) ELSE d

AppColumns == {"Player_Name", "Year", "Matches_Batted"} \cup SchemaNumeric \cup Range(score_cols)
AppSlots == <<<<ViratKohli, T(2015)>>, <<<<"A">>, T(2020)>>, <<ViratKohli, T(2016)>>,
              <<<<"B">>, T(2021)>>, <<MSDhoni, T(2020)>>>>
AppRow ==
    [col \in AppColumns \ {"Player_Name", "Year"} |->
        IF col = "Runs_Scored" THEN T(200)
        ELSE IF col = "Balls_Bowled" THEN T(100)
        ELSE T(5)]
AppFiles ==
    {SlotFile(AppColumns, AppSlots, S,
              [i \in S |-> IF i = 2 THEN [AppRow EXCEPT !["Batting_Average"] = NoStats]
                           ELSE AppRow]) : S \in SUBSET (1..MaxSlots)}

InitApp ==
    /\ file \in AppFiles
    /\ df = NoDf
    /\ fig = NoFig
    /\ cache = NoCache

\* one run of the script with the chart chosen in the sidebar
Rerun(chart) ==
    LET loaded == cache_data(cache, DEFAULT_FILE, file)
    IN  /\ cache' = cache \cup stored(DEFAULT_FILE, loaded)
        /\ IF loaded.status # "ok"
           THEN df' = loaded /\ fig' = NoFig
           ELSE /\ fig' = chart_map(chart, loaded)
                /\ df' = frame_after(chart, loaded)
        /\ UNCHANGED file

\* the data file is replaced on disk
ChangeFile ==
    /\ file' \in AppFiles \ {file}
    /\ UNCHANGED <<df, fig, cache>>

NextApp == (\E chart \in charts : Rerun(chart)) \/ ChangeFile

SpecApp == InitApp /\ [][NextApp]_vars

\* the script run again and again on the same file
NextDispatch == \E chart \in charts : Rerun(chart)

SpecDispatch == InitApp /\ [][NextDispatch]_vars

\* C12: every run of the script holds the table cleaned from the current
\* content of the data file, whatever was loaded before
C12_LoadsCurrentContent == [][file' = file => df' = load_and_process_data(file)]_vars

\* C17: whatever requests were made before, those that raised included, the
\* script holds the dataset cleaned from the file and the outcome shown is
\* that of the requested analysis on this dataset, an error being the
\* outcome of its own request only
C17_FailureIsolated ==
    fig.chart # "none" =>
        /\ df = load_and_process_data(file)
        /\ cache = {<<DEFAULT_FILE, load_and_process_data(file)>>}
        /\ fig.chart \in charts
        /\ fig = chart_map(fig.chart, load_and_process_data(file))

\* the outcome shown is the error of plot_fig15 on a dataset with a missing
\* Batting_Average, on which plot_fig1 and plot_fig3 return a figure
C17_Witness ==
    /\ fig.chart = "fig15" /\ fig.status = "KeyError"
    /\ \E k \in 1..Len(df.rows) : df.rows[k].c["Batting_Average"] = NaN
    /\ plot_fig1(df).status = "ok" /\ plot_fig3(df).status = "ok"

(***************************************************************************)
(* The table an analysis was called with, after the call.                  *)
(***************************************************************************)
\* the analyses whose figure is not modelled: they return or raise
other_charts == {"fig2", "fig4", "fig10", "fig11", "fig16"}

FrameSlots == <<<<ViratKohli, T(2015)>>, <<<<"A">>, <<"a", "b", "c">>>>, <<<<"B">>, T(2020)>>,
                <<<<"A">>, T(2021)>>, <<MSDhoni, T(2020)>>>>
FrameValues == {AppRow, [AppRow EXCEPT !["Runs_Scored"] = NoStats]}

InitFrame ==
    /\ \E S \in SUBSET (1..MaxSlots) : \E v \in [S -> FrameValues] :
          file = SlotFile(AppColumns, FrameSlots, S, v)
    /\ df = load_and_process_data(file)
    /\ fig = NoFig
    /\ cache = stored(DEFAULT_FILE, df)

Call(chart) ==
    /\ df.status = "ok" /\ fig.chart = "none"
    /\ fig' = chart_map(chart, df)
    /\ df' = frame_after(chart, df)
    /\ UNCHANGED <<file, cache>>

CallFig9 ==
    /\ df.status = "ok" /\ fig.chart = "none"
    /\ \E observed \in BOOLEAN : fig' = plot_fig9(df, observed)
    /\ df' = frame_after("fig9", df)
    /\ UNCHANGED <<file, cache>>

CallOther(chart) ==
    /\ df.status = "ok" /\ fig.chart = "none"
    /\ \E status \in {"returned", "raised"} : fig' = [chart |-> chart, status |-> status]
    /\ df' = frame_after(chart, df)
    /\ UNCHANGED <<file, cache>>

NextFrame ==
    \/ \E chart \in charts : Call(chart)
    \/ CallFig9
    \/ \E chart \in other_charts : CallOther(chart)

SpecFrame == InitFrame /\ [][NextFrame]_vars

\* C13: after the call of an analysis, whether it returned or raised, the
\* table it was called with has the rows, columns and cell values it had
\* before; the Year values are those the loader produced
C13_FrameUnchanged ==
    fig.chart # "none" => df = load_and_process_data(file)

\* plot_fig12 has assigned to Year in a table with a missing and a numeric Year
C13_Witness ==
    /\ fig.chart = "fig12" /\ fig.status = "ok"
    /\ \E k, l \in 1..Len(df.rows) :
          df.rows[k].c["Year"] = NaN /\ df.rows[l].c["Year"] = Num(2020)

====
